---------------------------- MODULE Spec2Model ----------------------------
(***************************************************************************)
(* State-machine model of gpu-raytracer's main() (src/src/main.rs):        *)
(* argument handling, device selection, the single-frame export branch and *)
(* the interactive event loop with its camera, together with the GPU queue *)
(* the program submits work to.                                            *)
(*                                                                         *)
(* The process is single threaded.  The only asynchrony is the GPU queue:  *)
(* submitted operations retire one at a time, in submission order, while   *)
(* the CPU is blocked in the fence wait.                                   *)
(***************************************************************************)
EXTENDS Integers, Sequences, FiniteSets, TLC

(***************************************************************************)
(* Bounds of the model.                                                    *)
(***************************************************************************)
\* frames the interactive loop may start (MainEventsCleared deliveries)
MaxFrames == 2
\* adapters the instance may enumerate
MaxAdapters == 2
\* images of the swapchain (caps.min_image_count of the surface)
NumImages == 2

(***************************************************************************)
(* Program constants.                                                      *)
(***************************************************************************)
\* default of --width / --height
DefaultSize == 500
\* workgroup edge the dispatch grid divides the viewport by
WorkgroupSize == 8
\* bytes per texel of the readback buffer
BytesPerTexel == 4
\* the number of padding entries of cs::ty::Input
DummyLen == 8

(***************************************************************************)
(* Command-line text.  An argument value is a sequence of one-character   *)
(* strings; an optional argument is <<>> (absent) or <<text>> (given).     *)
(***************************************************************************)
Digits == <<"0", "1", "2", "3", "4", "5", "6", "7", "8", "9">>

IsDigit(c) == \E i \in 1..Len(Digits) : Digits[i] = c

DigitVal(c) == (CHOOSE i \in 1..Len(Digits) : Digits[i] = c) - 1

RECURSIVE DigitsValue(_)
DigitsValue(t) ==
    IF t = <<>> THEN 0
    ELSE 10 * DigitsValue(SubSeq(t, 1, Len(t) - 1)) + DigitVal(t[Len(t)])

\* str::parse::<usize>() / str::parse::<u32>(): an optional leading "+",
\* then one or more decimal digits; anything else is Err.  (Values beyond
\* the integer type's range are Err too; the sampled texts stay below it.)
ParseUInt(t) ==
    LET body == IF t # <<>> /\ t[1] = "+" THEN Tail(t) ELSE t
    IN  IF body # <<>> /\ \A i \in 1..Len(body) : IsDigit(body[i])
        THEN [ok |-> TRUE, val |-> DigitsValue(body)]
        ELSE [ok |-> FALSE, val |-> 0]

Absent == <<>>
Given(t) == <<t>>

(***************************************************************************)
(* IEEE-754 binary32 values, as the camera arithmetic uses them.  A value  *)
(* is [m, e] standing for m * 2^e, with m = 0 (and e = 0) for zero and     *)
(* 2^23 <= |m| < 2^24 otherwise.  Exponents stay far inside the normal     *)
(* range for every value the bounded runs produce.                         *)
(***************************************************************************)
FZero == [m |-> 0, e |-> 0]

Abs(n) == IF n < 0 THEN -n ELSE n

Sgn(n) == IF n < 0 THEN -1 ELSE 1

\* number of significant bits of n, 0 <= n < 2^30
BitLen(n) == CHOOSE k \in 0..30 : n < 2^k /\ (k = 0 \/ n >= 2^(k - 1))

\* the binary32 nearest to s * 2^e (round to nearest, ties to even)
RoundF(s, e) ==
    LET n == Abs(s)
        k == BitLen(n)
    IN  IF n = 0 THEN FZero
        ELSE IF k <= 24
             THEN [m |-> Sgn(s) * n * 2^(24 - k), e |-> e - (24 - k)]
             ELSE LET sh   == k - 24
                      q    == n \div 2^sh
                      r    == n % 2^sh
                      half == 2^(sh - 1)
                      up   == r > half \/ (r = half /\ q % 2 = 1)
                      q2   == IF up THEN q + 1 ELSE q
                  IN  IF q2 = 2^24
                      THEN [m |-> Sgn(s) * 2^23, e |-> e + sh + 1]
                      ELSE [m |-> Sgn(s) * q2, e |-> e + sh]

\* f32 addition.  The operand with the smaller exponent is aligned to the
\* other one keeping a sticky bit, so the rounding sees the exact sum.
FAdd(a, b) ==
    IF a.m = 0 THEN b
    ELSE IF b.m = 0 THEN a
    ELSE LET hi == IF a.e >= b.e THEN a ELSE b
             lo == IF a.e >= b.e THEN b ELSE a
             d  == hi.e - lo.e
         IN  IF d <= 3 THEN RoundF(hi.m * 2^d + lo.m, lo.e)
             ELSE IF d > 30 THEN hi
             ELSE LET qm == Abs(lo.m) \div 2^(d - 3)
                      st == IF Abs(lo.m) % 2^(d - 3) # 0 THEN 1 ELSE 0
                  IN  RoundF(hi.m * 16 + Sgn(lo.m) * (2 * qm + st), hi.e - 4)

FNeg(a) == [m |-> -a.m, e |-> a.e]

FSub(a, b) == FAdd(a, FNeg(b))


(***************************************************************************)
(* The per-tick displacement 0.01 * (view_angle * 0.01745_f32).sin() and   *)
(* .cos() as binary32 values, tabulated for the whole-degree angles the    *)
(* bounded runs reach (entry |view_angle| + 1).  view_angle only ever      *)
(* changes by 1.0 from 0.0, so it is a whole number, exact in binary32.    *)
(* sin is odd and cos is even in the angle.                                *)
(***************************************************************************)
SinTable ==
    << [m |-> 0,        e |-> 0],   [m |-> 11990940, e |-> -36],
       [m |-> 11989113, e |-> -35], [m |-> 8989554,  e |-> -34],
       [m |-> 11981813, e |-> -34], [m |-> 14970424, e |-> -34],
       [m |-> 8977239,  e |-> -33] >>

CosTable ==
    << [m |-> 10737418, e |-> -30], [m |-> 10735783, e |-> -30],
       [m |-> 10730880, e |-> -30], [m |-> 10722708, e |-> -30],
       [m |-> 10711272, e |-> -30], [m |-> 10696574, e |-> -30],
       [m |-> 10678619, e |-> -30] >>

\* 0.01 * (view_angle * 0.01745_f32).sin()
StepSin(angle) ==
    IF angle < 0 THEN FNeg(SinTable[Abs(angle) + 1]) ELSE SinTable[angle + 1]

\* 0.01 * (view_angle * 0.01745_f32).cos()
StepCos(angle) == CosTable[Abs(angle) + 1]

(***************************************************************************)
(* Camera tick: the movement and turning part of the MainEventsCleared     *)
(* handler, in the order the code applies it.                              *)
(***************************************************************************)
\* variant: sine and cosine exchanged
MoveForwardSwapped(pos, angle) ==
    <<FAdd(pos[1], StepCos(angle)), pos[2], FSub(pos[3], StepSin(angle))>>

MoveForward(pos, angle) ==
    <<FAdd(pos[1], StepSin(angle)), pos[2], FSub(pos[3], StepCos(angle))>>

\* variant: the backward step moves the same way as the forward step
MoveBackwardSameWay(pos, angle) ==
    <<FAdd(pos[1], StepSin(angle)), pos[2], FSub(pos[3], StepCos(angle))>>

MoveBackward(pos, angle) ==
    <<FSub(pos[1], StepSin(angle)), pos[2], FAdd(pos[3], StepCos(angle))>>

TurnLeft(angle) == angle - 1

TurnRight(angle) == angle + 1

TickPosition(pos, angle, fwd, bwd) ==
    LET p1 == IF fwd THEN MoveForward(pos, angle) ELSE pos
    IN  IF bwd THEN MoveBackward(p1, angle) ELSE p1

\* variant: turns right whenever it is not turning left
TickAngleDrift(angle, left, right) ==
    IF left THEN TurnLeft(angle) ELSE TurnRight(angle)

TickAngle(angle, left, right) ==
    LET a1 == IF left THEN TurnLeft(angle) ELSE angle
    IN  IF right THEN TurnRight(a1) ELSE a1

\* variant: the turn comes first and the movement uses the turned yaw
TickTurnFirst(pos, angle, fwd, bwd, left, right) ==
    LET a2 == TickAngle(angle, left, right)
    IN  <<TickPosition(pos, a2, fwd, bwd), a2>>

\* the camera update of one MainEventsCleared: "Handle movement", then
\* "Handle turning"; the new <<view_position, view_angle>>
Tick(pos, angle, fwd, bwd, left, right) ==
    <<TickPosition(pos, angle, fwd, bwd), TickAngle(angle, left, right)>>

(***************************************************************************)
(* Integer helpers of the frame code.                                      *)
(***************************************************************************)
\* [width / 8, height / 8, 1]: u32 division truncates
DispatchGrid(w, h) == <<w \div WorkgroupSize, h \div WorkgroupSize, 1>>

\* width * height * 4 exceeds u32 (the sampled sizes keep w * h below 2^31)
BufLenOverflows(w, h) == w * h >= 2^30

\* width * height * 4 modulo 2^32 (u32 arithmetic with overflow checks off)
BufLenWrapped(w, h) == ((w * h) % 2^30) * BytesPerTexel

\* A u32 as two 16-bit words <<hi, lo>>, standing for hi * 2^16 + lo, so
\* that values from 2^31 on can be written down.
Words(n) == <<n \div 2^16, n % 2^16>>

\* the words of a run of decimal digits, ok = FALSE once the value leaves
\* the u32 range
RECURSIVE DigitsWords(_)
DigitsWords(t) ==
    IF t = <<>> THEN [ok |-> TRUE, val |-> <<0, 0>>]
    ELSE LET p  == DigitsWords(SubSeq(t, 1, Len(t) - 1))
             lo == p.val[2] * 10 + DigitVal(t[Len(t)])
             hi == p.val[1] * 10 + lo \div 2^16
         IN  IF p.ok /\ hi < 2^16
             THEN [ok |-> TRUE, val |-> <<hi, lo % 2^16>>]
             ELSE [ok |-> FALSE, val |-> <<0, 0>>]

\* str::parse::<u32>() over the whole u32 range: as ParseUInt, the value
\* in words, and Err for a value above u32::MAX
ParseU32(t) ==
    LET body == IF t # <<>> /\ t[1] = "+" THEN Tail(t) ELSE t
    IN  IF body # <<>> /\ \A i \in 1..Len(body) : IsDigit(body[i])
        THEN DigitsWords(body)
        ELSE [ok |-> FALSE, val |-> <<0, 0>>]

\* width as i32 / height as i32: the same 32 bits read as two's complement
AsI32(w) ==
    IF w[1] >= 2^15 THEN (w[1] - 2^16) * 2^16 + w[2] ELSE w[1] * 2^16 + w[2]

\* cs::ty::Input as uploaded, from the viewport in words; time (wall clock)
\* is left out
InputOf(ww, hw, pos, angle) ==
    [width |-> AsI32(ww), height |-> AsI32(hw), view_position |-> pos,
     view_angle |-> angle, _dummy0 |-> [i \in 1..DummyLen |-> 0]]

\* variant: the yaw is marshalled into the record negated
InputAngleNegated(w, h, pos, angle) ==
    [width |-> AsI32(Words(w)), height |-> AsI32(Words(h)),
     view_position |-> pos, view_angle |-> 0 - angle,
     _dummy0 |-> [i \in 1..DummyLen |-> 0]]

\* cs::ty::Input as uploaded for a viewport below 2^31
Input(w, h, pos, angle) == InputOf(Words(w), Words(h), pos, angle)

(***************************************************************************)
(* State.                                                                  *)
(***************************************************************************)
VARIABLES
    args,            \* matches: [list, device, width, height, frame]
    numAdapters,     \* adapters PhysicalDevice::enumerate yields
    queueFams,       \* queue families of the selected adapter
    pc,              \* position of main()
    exit,            \* "running", "success" (main returned / loop exited), "panic"
    stderr,          \* messages written to standard error
    device_index, physical, width, height,
    queue_family,    \* index into queueFams of the family picked, 0 = none
    device,          \* logical device and its queue opened
    image,           \* the StorageImage render target
    view_position, view_angle,
    moving_forward, moving_backward, turning_left, turning_right,
    buf,             \* the export branch's CPU-readable buffer
    png,             \* <<>> or <<name>> of the file written
    surface,         \* window surface and swapchain built
    control_flow,    \* winit's ControlFlow of the running loop
    evPhase,         \* where the event loop is inside one iteration
    image_num,       \* swapchain image index acquired for the frame, -1 = none
    acquired,        \* swapchain images acquired and not yet presented
    acqSignalled,    \* the acquire future of the frame has signalled
    params,          \* <<>> or <<cs::ty::Input>> last uploaded
    gpuQueue,        \* operations submitted to the queue and not yet retired
    fence,           \* "none", "pending", "signalled"
    rtWriter,        \* frame whose dispatch last wrote the render target
    lastGrid,        \* grid of the last dispatch the queue executed
    lastRead,        \* what the last transfer found: [frame, writer]
    sinkLog,         \* steps of the frame in progress, in the order they happened
    count            \* [frames, ticks, acquires, submits, dispatches, transfers, presents]

argVars   == <<args, numAdapters, queueFams>>
setupVars == <<device_index, physical, width, height, queue_family, device, image>>
camVars   == <<view_position, view_angle>>
keyVars   == <<moving_forward, moving_backward, turning_left, turning_right>>
fileVars  == <<buf, png>>
loopVars  == <<surface, control_flow, evPhase>>
gpuVars   == <<image_num, acquired, acqSignalled, params, gpuQueue, fence,
               rtWriter, lastGrid, lastRead, sinkLog, count>>

vars == <<argVars, pc, exit, stderr, setupVars, camVars, keyVars, fileVars,
          loopVars, gpuVars>>

(***************************************************************************)
(* Inputs: command lines and machines the runs start from.                 *)
(***************************************************************************)
BadText == <<"x">>
DeviceTexts == {BadText, <<"0">>, <<"1">>, <<"5">>}
SizeTexts == {BadText, <<"0">>, <<"1", "6">>, <<"3", "2", "7", "6", "8">>}
Opt(texts) == {Absent} \cup {Given(t) : t \in texts}

QueueFamily(g, p) == [graphics |-> g, present |-> p]
QueueFamCases ==
    { <<>>,
      <<QueueFamily(TRUE, TRUE)>>,
      <<QueueFamily(FALSE, TRUE), QueueFamily(TRUE, FALSE)>>,
      <<QueueFamily(FALSE, FALSE), QueueFamily(TRUE, TRUE)>> }

\* export runs (--frame given): every combination of the sampled arguments
FileRuns ==
    [list : BOOLEAN, device : Opt(DeviceTexts), width : Opt(SizeTexts),
     height : Opt(SizeTexts), frame : {Given(<<"o">>)}]

\* interactive runs (no --frame)
WindowRuns ==
    [list : {FALSE}, device : {Absent, Given(BadText), Given(<<"5">>)},
     width : {Absent, Given(BadText), Given(<<"0">>), Given(<<"1", "6">>)},
     height : {Absent}, frame : {Absent}]

Origin == <<FZero, FZero, FZero>>

NoCount == [frames |-> 0, ticks |-> 0, acquires |-> 0, submits |-> 0,
            dispatches |-> 0, transfers |-> 0, presents |-> 0]

Init ==
    /\ \/ /\ args \in FileRuns
          /\ numAdapters \in 0..MaxAdapters
          /\ queueFams \in QueueFamCases
       \/ /\ args \in WindowRuns
          /\ numAdapters = 1
          /\ queueFams \in {<<QueueFamily(TRUE, TRUE)>>,
                            <<QueueFamily(FALSE, TRUE), QueueFamily(TRUE, FALSE)>>}
    /\ pc = "start"
    /\ exit = "running"
    /\ stderr = <<>>
    /\ device_index = 0
    /\ physical = -1
    /\ width = 0
    /\ height = 0
    /\ queue_family = 0
    /\ device = FALSE
    /\ image = <<>>
    /\ view_position = Origin
    /\ view_angle = 0
    /\ moving_forward = FALSE
    /\ moving_backward = FALSE
    /\ turning_left = FALSE
    /\ turning_right = FALSE
    /\ buf = <<>>
    /\ png = <<>>
    /\ surface = FALSE
    /\ control_flow = "Poll"
    /\ evPhase = "none"
    /\ image_num = -1
    /\ acquired = {}
    /\ acqSignalled = FALSE
    /\ params = <<>>
    /\ gpuQueue = <<>>
    /\ fence = "none"
    /\ rtWriter = 0
    /\ lastGrid = <<>>
    /\ lastRead = <<>>
    /\ sinkLog = <<>>
    /\ count = NoCount

(***************************************************************************)
(* Ways main() ends.                                                       *)
(***************************************************************************)
\* eprintln!(..); return;  -- main returns normally
ErrorReturn(msg) ==
    /\ stderr' = Append(stderr, msg)
    /\ exit' = "success"
    /\ pc' = "done"

\* variant: the failure is reported and the run carries on where it was
PanicContinues(msg) ==
    /\ stderr' = Append(stderr, msg)
    /\ UNCHANGED <<pc, exit>>

\* unwrap()/expect() on an Err or None: the panic message goes to standard
\* error and the process ends with the panic status
Panic(msg) ==
    /\ stderr' = Append(stderr, msg)
    /\ exit' = "panic"
    /\ pc' = "done"

\* main returns without a message
Return ==
    /\ stderr' = stderr
    /\ exit' = "success"
    /\ pc' = "done"

Goto(l) ==
    /\ pc' = l
    /\ UNCHANGED <<exit, stderr>>

(***************************************************************************)
(* Start-up: main() from the argument matches to the mode branch.          *)
(***************************************************************************)
\* --list-devices: print the adapters and return
ListDevices ==
    /\ pc = "start"
    /\ args.list
    /\ Return
    /\ UNCHANGED <<argVars, setupVars, camVars, keyVars, fileVars, loopVars, gpuVars>>

\* let device_index = ...
ParseDevice ==
    /\ pc = "start"
    /\ ~args.list
    /\ IF args.device = Absent
       THEN device_index' = 0 /\ Goto("select")
       ELSE LET r == ParseUInt(args.device[1])
            IN  IF r.ok
                THEN device_index' = r.val /\ Goto("select")
                ELSE /\ device_index' = device_index
                     /\ ErrorReturn("Invalid argument provided. Device must be an integer")
    /\ UNCHANGED <<argVars, physical, width, height, queue_family, device, image,
                   camVars, keyVars, fileVars, loopVars, gpuVars>>

\* variant: the bound test is off by one
NthAdapterOffByOne(n, i) == IF i <= n THEN i ELSE -1

\* PhysicalDevice::enumerate(&instance).nth(i): the adapter's index, -1 for None
NthAdapter(n, i) == IF i < n THEN i ELSE -1

\* let physical = match ... nth(device_index)
SelectPhysical ==
    /\ pc = "select"
    /\ LET p == NthAdapter(numAdapters, device_index)
       IN  IF p # -1
           THEN physical' = p /\ Goto("width")
           ELSE /\ physical' = physical
                /\ ErrorReturn("Error: Could not find physical device with index")
    /\ UNCHANGED <<argVars, device_index, width, height, queue_family, device,
                   image, camVars, keyVars, fileVars, loopVars, gpuVars>>

\* let width = ...
ParseWidth ==
    /\ pc = "width"
    /\ IF args.width = Absent
       THEN width' = DefaultSize /\ Goto("height")
       ELSE LET r == ParseUInt(args.width[1])
            IN  IF r.ok
                THEN width' = r.val /\ Goto("height")
                ELSE /\ width' = width
                     /\ ErrorReturn("Invalid argument provided. Width must be an integer")
    /\ UNCHANGED <<argVars, device_index, physical, height, queue_family, device,
                   image, camVars, keyVars, fileVars, loopVars, gpuVars>>

\* let height = ...
ParseHeight ==
    /\ pc = "height"
    /\ IF args.height = Absent
       THEN height' = DefaultSize /\ Goto("queue")
       ELSE LET r == ParseUInt(args.height[1])
            IN  IF r.ok
                THEN height' = r.val /\ Goto("queue")
                ELSE /\ height' = height
                     /\ ErrorReturn("Invalid argument provided. Height must be an integer")
    /\ UNCHANGED <<argVars, device_index, physical, width, queue_family, device,
                   image, camVars, keyVars, fileVars, loopVars, gpuVars>>

\* physical.queue_families().find(|&q| q.supports_graphics()): 0 for None
FindGraphics(fams) ==
    IF \E i \in 1..Len(fams) : fams[i].graphics
    THEN CHOOSE i \in 1..Len(fams) :
            fams[i].graphics /\ \A j \in 1..(i - 1) : ~fams[j].graphics
    ELSE 0

\* let queue_family = ... .expect("couldn't find a graphical queue family")
PickQueueFamily ==
    /\ pc = "queue"
    /\ LET q == FindGraphics(queueFams)
       IN  IF q # 0
           THEN queue_family' = q /\ Goto("device")
           ELSE /\ queue_family' = queue_family
                /\ Panic("couldn't find a graphical queue family")
    /\ UNCHANGED <<argVars, device_index, physical, width, height, device, image,
                   camVars, keyVars, fileVars, loopVars, gpuVars>>

\* Device::new, queues.next(), cs::Shader::load
CreateDevice ==
    /\ pc = "device"
    /\ device' = TRUE
    /\ Goto("image")
    /\ UNCHANGED <<argVars, device_index, physical, width, height, queue_family,
                   image, camVars, keyVars, fileVars, loopVars, gpuVars>>

\* StorageImage::new(.., Dim2d { width, height }, ..).unwrap(): the library
\* rejects an empty extent, and the allocation itself may fail
CreateImage ==
    /\ pc = "image"
    /\ \/ /\ width > 0 /\ height > 0
          /\ image' = <<[width |-> width, height |-> height]>>
          /\ Goto("pipeline")
       \/ /\ image' = image
          /\ Panic("unwrap on Err: ImageCreationError")
    /\ UNCHANGED <<argVars, device_index, physical, width, height, queue_family,
                   device, camVars, keyVars, fileVars, loopVars, gpuVars>>

\* ComputePipeline::new and the camera / input locals
SetupPipeline ==
    /\ pc = "pipeline"
    /\ view_position' = Origin
    /\ view_angle' = 0
    /\ moving_forward' = FALSE
    /\ moving_backward' = FALSE
    /\ turning_left' = FALSE
    /\ turning_right' = FALSE
    /\ Goto("mode")
    /\ UNCHANGED <<argVars, setupVars, fileVars, loopVars, gpuVars>>

(***************************************************************************)
(* The GPU queue.  Operations retire in submission order.                  *)
(***************************************************************************)
Op(o, f, g, i) == [op |-> o, frame |-> f, grid |-> g, idx |-> i]

Step(s, i) == [step |-> s, idx |-> i]

\* variant: the copy is recorded before the dispatch
FileCommandsCopyFirst(f, w, h) ==
    <<Op("copy", f, <<>>, -1), Op("dispatch", f, DispatchGrid(w, h), -1)>>

\* builder.dispatch(..).copy_image_to_buffer(..)
FileCommands(f, w, h) ==
    <<Op("dispatch", f, DispatchGrid(w, h), -1), Op("copy", f, <<>>, -1)>>

\* variant: the blit is recorded before the dispatch
FrameCommandsBlitFirst(f, w, h, i) ==
    <<Op("blit", f, <<>>, i), Op("dispatch", f, DispatchGrid(w, h), -1)>>

\* builder.dispatch(..).blit_image(.., images[image_num], ..)
FrameCommands(f, w, h, i) ==
    <<Op("dispatch", f, DispatchGrid(w, h), -1), Op("blit", f, <<>>, i)>>

\* .then_swapchain_present(queue, swapchain, image_num)
PresentRequest(f, i) == <<Op("present", f, <<>>, i)>>

Bump(field) == [count EXCEPT ![field] = @ + 1]

\* acquire_future.then_execute(..): the submission waits for the acquire
\* future; the export branch has no such dependency
ExecReady == image_num # -1 => acqSignalled

\* the presentation engine hands the acquired image over
AcquireSignal ==
    /\ pc = "frame_wait"
    /\ ~acqSignalled
    /\ acqSignalled' = TRUE
    /\ sinkLog' = Append(sinkLog, Step("signal", image_num))
    /\ UNCHANGED <<argVars, pc, exit, stderr, setupVars, camVars, keyVars, fileVars,
                   loopVars, image_num, acquired, params, gpuQueue, fence, rtWriter,
                   lastGrid, lastRead, count>>

GpuDispatch ==
    /\ gpuQueue # <<>>
    /\ gpuQueue[1].op = "dispatch"
    /\ ExecReady
    /\ rtWriter' = gpuQueue[1].frame
    /\ lastGrid' = gpuQueue[1].grid
    /\ count' = Bump("dispatches")
    /\ sinkLog' = Append(sinkLog, Step("dispatch", gpuQueue[1].idx))
    /\ gpuQueue' = Tail(gpuQueue)
    /\ UNCHANGED <<argVars, pc, exit, stderr, setupVars, camVars, keyVars, fileVars,
                   loopVars, image_num, acquired, acqSignalled, params, fence,
                   lastRead>>

GpuCopy ==
    /\ gpuQueue # <<>>
    /\ gpuQueue[1].op = "copy"
    /\ ExecReady
    /\ buf' = <<[buf[1] EXCEPT !.content = rtWriter]>>
    /\ lastRead' = <<[frame |-> gpuQueue[1].frame, writer |-> rtWriter]>>
    /\ count' = Bump("transfers")
    /\ sinkLog' = Append(sinkLog, Step("copy", gpuQueue[1].idx))
    /\ gpuQueue' = Tail(gpuQueue)
    /\ UNCHANGED <<argVars, pc, exit, stderr, setupVars, camVars, keyVars, png,
                   loopVars, image_num, acquired, acqSignalled, params, fence,
                   rtWriter, lastGrid>>

GpuBlit ==
    /\ gpuQueue # <<>>
    /\ gpuQueue[1].op = "blit"
    /\ ExecReady
    /\ lastRead' = <<[frame |-> gpuQueue[1].frame, writer |-> rtWriter]>>
    /\ count' = Bump("transfers")
    /\ sinkLog' = Append(sinkLog, Step("blit", gpuQueue[1].idx))
    /\ gpuQueue' = Tail(gpuQueue)
    /\ UNCHANGED <<argVars, pc, exit, stderr, setupVars, camVars, keyVars, fileVars,
                   loopVars, image_num, acquired, acqSignalled, params, fence,
                   rtWriter, lastGrid>>

GpuPresent ==
    /\ gpuQueue # <<>>
    /\ gpuQueue[1].op = "present"
    /\ ExecReady
    /\ acquired' = acquired \ {gpuQueue[1].idx}
    /\ count' = Bump("presents")
    /\ sinkLog' = Append(sinkLog, Step("present", gpuQueue[1].idx))
    /\ gpuQueue' = Tail(gpuQueue)
    /\ UNCHANGED <<argVars, pc, exit, stderr, setupVars, camVars, keyVars, fileVars,
                   loopVars, image_num, acqSignalled, params, fence, rtWriter,
                   lastGrid, lastRead>>

\* the fence signals once everything submitted before it has retired
FenceSignal ==
    /\ fence = "pending"
    /\ gpuQueue = <<>>
    /\ fence' = "signalled"
    /\ sinkLog' = Append(sinkLog, Step("fence", image_num))
    /\ UNCHANGED <<argVars, pc, exit, stderr, setupVars, camVars, keyVars, fileVars,
                   loopVars, image_num, acquired, acqSignalled, params, gpuQueue,
                   rtWriter, lastGrid, lastRead, count>>

\* variant: the wait returns as soon as the fence has been submitted
WaitReadyEarly == fence # "none"

\* .wait(None) returns Ok
WaitReady == fence = "signalled"

(***************************************************************************)
(* Export branch: if let Some(output) = matches.value_of("frame").         *)
(***************************************************************************)
\* the buffer copy_image_to_buffer needs is longer than the one allocated
BufferTooSmall(len, w, h) == BufLenOverflows(w, h) \/ len < w * h * BytesPerTexel

\* CpuAccessibleBuffer::from_iter(.., (0..width * height * 4).map(|_| 0u8)):
\* the product is u32; on overflow a build with overflow checks panics and
\* one without them wraps
FileAlloc ==
    /\ pc = "mode"
    /\ args.frame # Absent
    /\ IF BufLenOverflows(width, height)
       THEN \/ buf' = buf /\ Panic("attempt to multiply with overflow")
            \/ /\ buf' = <<[len |-> BufLenWrapped(width, height), content |-> 0]>>
               /\ Goto("f_submit")
       ELSE /\ buf' = <<[len |-> width * height * BytesPerTexel, content |-> 0]>>
            /\ Goto("f_submit")
    /\ UNCHANGED <<argVars, setupVars, camVars, keyVars, png, loopVars, gpuVars>>

\* params_buffer, descriptor set, command buffer, execute and
\* then_signal_fence_and_flush
FileSubmit ==
    /\ pc = "f_submit"
    /\ params' = <<Input(width, height, view_position, view_angle)>>
    /\ IF BufferTooSmall(buf[1].len, width, height)
       THEN /\ Panic("unwrap on Err: BufferTooSmall")
            /\ UNCHANGED <<gpuQueue, fence, count, sinkLog>>
       ELSE \/ /\ gpuQueue' = FileCommands(count.frames + 1, width, height)
               /\ fence' = "pending"
               /\ count' = [count EXCEPT !.frames = @ + 1, !.submits = @ + 1]
               /\ sinkLog' = <<Step("submit", -1)>>
               /\ Goto("f_wait")
            \/ /\ Panic("unwrap on Err: FlushError")
               /\ UNCHANGED <<gpuQueue, fence, count, sinkLog>>
    /\ UNCHANGED <<argVars, setupVars, camVars, keyVars, fileVars, loopVars,
                   image_num, acquired, acqSignalled, rtWriter, lastGrid, lastRead>>

\* .wait(None).unwrap()
FileWait ==
    /\ pc = "f_wait"
    /\ \/ /\ WaitReady
          /\ sinkLog' = Append(sinkLog, Step("return", -1))
          /\ Goto("f_save")
       \/ /\ sinkLog' = sinkLog
          /\ Panic("unwrap on Err: FlushError")
    /\ UNCHANGED <<argVars, setupVars, camVars, keyVars, fileVars, loopVars,
                   image_num, acquired, acqSignalled, params, gpuQueue, fence,
                   rtWriter, lastGrid, lastRead, count>>

DotPng == <<".", "p", "n", "g">>

\* buf.read(), ImageBuffer::from_raw, image.save(format!("{}.png", output))
FileSave ==
    /\ pc = "f_save"
    /\ \/ /\ png' = <<[name |-> args.frame[1] \o DotPng, width |-> width,
                       height |-> height, content |-> buf[1].content]>>
          /\ Return
       \/ /\ png' = png
          /\ Panic("unwrap on Err: ImageError")
    /\ UNCHANGED <<argVars, setupVars, camVars, keyVars, buf, loopVars, gpuVars>>

(***************************************************************************)
(* Interactive branch: window, swapchain and the event loop.  winit calls  *)
(* the closure once per event; each iteration of its loop delivers the     *)
(* pending window and device events, then MainEventsCleared, then the      *)
(* redraw events, and only then looks at control_flow.                     *)
(***************************************************************************)
\* WindowBuilder .. build_vk_surface, Swapchain::new, events_loop.run
CreateWindow ==
    /\ pc = "mode"
    /\ args.frame = Absent
    /\ surface' = TRUE
    /\ control_flow' = "Poll"
    /\ evPhase' = "events"
    /\ Goto("loop")
    /\ UNCHANGED <<argVars, setupVars, camVars, keyVars, fileVars, gpuVars>>

\* WindowEvent::CloseRequested => *control_flow = ControlFlow::Exit
CloseRequested ==
    /\ pc = "loop"
    /\ evPhase = "events"
    /\ control_flow' = "Exit"
    /\ UNCHANGED <<argVars, pc, exit, stderr, setupVars, camVars, keyVars, fileVars,
                   surface, evPhase, gpuVars>>

KeyCodes == {"Up", "Down", "Left", "Right", "Space", "None"}
ElementStates == {"Pressed", "Released"}

\* variant: any event for the key sets its flag, a release included
KeyFlagSticky(cur, key, mine, st) == IF key = mine THEN TRUE ELSE cur

\* variant: an event for any other key clears the flag
KeyFlagClearedByOthers(cur, key, mine, st) ==
    IF key = mine THEN st = "Pressed" ELSE FALSE

\* one flag's arms of the match on KeyboardInput
KeyFlag(cur, key, mine, st) == IF key = mine THEN st = "Pressed" ELSE cur

\* DeviceEvent::Key(k) => match k { .. }
KeyEvent(key, st) ==
    /\ pc = "loop"
    /\ evPhase = "events"
    /\ moving_forward' = KeyFlag(moving_forward, key, "Up", st)
    /\ moving_backward' = KeyFlag(moving_backward, key, "Down", st)
    /\ turning_left' = KeyFlag(turning_left, key, "Left", st)
    /\ turning_right' = KeyFlag(turning_right, key, "Right", st)
    /\ UNCHANGED <<argVars, pc, exit, stderr, setupVars, camVars, fileVars,
                   loopVars, gpuVars>>

\* _ => (): any other event, before or after MainEventsCleared
OtherEvent ==
    /\ pc = "loop"
    /\ evPhase \in {"events", "cleared"}
    /\ UNCHANGED vars

\* Event::RedrawEventsCleared, which winit delivers in every iteration after
\* MainEventsCleared and the redraw requests; it takes the arm _ => ()
RedrawEventsCleared ==
    /\ pc = "loop"
    /\ evPhase = "cleared"
    /\ evPhase' = "redrawn"
    /\ UNCHANGED <<argVars, pc, exit, stderr, setupVars, camVars, keyVars,
                   fileVars, surface, control_flow, gpuVars>>

\* variant: presents the image after the acquired one
PresentIndexOther(i) == (i + 1) % NumImages

\* the index handed to then_swapchain_present
PresentIndex(i) == i

\* Event::MainEventsCleared => { .. } up to then_signal_fence_and_flush
MainEventsCleared ==
    /\ pc = "loop"
    /\ evPhase = "events"
    /\ count.frames < MaxFrames
    /\ LET cam2 == Tick(view_position, view_angle, moving_forward,
                        moving_backward, turning_left, turning_right)
           pos2 == cam2[1]
           ang2 == cam2[2]
           f    == count.frames + 1
           started == [count EXCEPT !.frames = f, !.ticks = @ + 1]
       IN  /\ view_position' = pos2
           /\ view_angle' = ang2
           /\ \/ \* acquire_next_image(..).unwrap() fails
                 /\ Panic("unwrap on Err: AcquireError")
                 /\ count' = started
                 /\ UNCHANGED <<image_num, acquired, acqSignalled, params,
                                gpuQueue, fence, sinkLog>>
              \/ \E i \in (0..(NumImages - 1)) \ acquired :
                    /\ image_num' = i
                    /\ acquired' = acquired \cup {i}
                    /\ acqSignalled' = FALSE
                    /\ params' = <<Input(width, height, pos2, ang2)>>
                    /\ \/ /\ gpuQueue' = FrameCommands(f, width, height, i)
                                            \o PresentRequest(f, PresentIndex(i))
                          /\ fence' = "pending"
                          /\ count' = [started EXCEPT !.acquires = @ + 1,
                                                      !.submits = @ + 1]
                          /\ sinkLog' = <<Step("acquire", i), Step("submit", i)>>
                          /\ Goto("frame_wait")
                       \/ \* then_execute / then_signal_fence_and_flush fails
                          /\ Panic("unwrap on Err: FlushError")
                          /\ sinkLog' = <<Step("acquire", i)>>
                          /\ count' = [started EXCEPT !.acquires = @ + 1]
                          /\ UNCHANGED <<gpuQueue, fence>>
    /\ UNCHANGED <<argVars, setupVars, keyVars, fileVars, loopVars, rtWriter,
                   lastGrid, lastRead>>

\* .wait(None).unwrap() and the return from the closure
FenceWait ==
    /\ pc = "frame_wait"
    /\ \/ /\ WaitReady
          /\ sinkLog' = Append(sinkLog, Step("return", image_num))
          /\ image_num' = -1
          /\ evPhase' = "cleared"
          /\ Goto("loop")
       \/ /\ Panic("unwrap on Err: FlushError")
          /\ UNCHANGED <<sinkLog, image_num, evPhase>>
    /\ UNCHANGED <<argVars, setupVars, camVars, keyVars, fileVars, surface,
                   control_flow, acquired, acqSignalled, params, gpuQueue, fence,
                   rtWriter, lastGrid, lastRead, count>>

\* the end of one iteration of winit's loop: Exit leaves the loop and ends
\* the process, anything else starts the next iteration
EndIteration ==
    /\ pc = "loop"
    /\ evPhase = "redrawn"
    /\ IF control_flow = "Exit"
       THEN evPhase' = "none" /\ Return
       ELSE evPhase' = "events" /\ Goto("loop")
    /\ UNCHANGED <<argVars, setupVars, camVars, keyVars, fileVars, surface,
                   control_flow, gpuVars>>

(***************************************************************************)
(* The program.                                                            *)
(***************************************************************************)
Next ==
    \/ ListDevices
    \/ ParseDevice
    \/ SelectPhysical
    \/ ParseWidth
    \/ ParseHeight
    \/ PickQueueFamily
    \/ CreateDevice
    \/ CreateImage
    \/ SetupPipeline
    \/ FileAlloc
    \/ FileSubmit
    \/ FileWait
    \/ FileSave
    \/ CreateWindow
    \/ CloseRequested
    \/ \E key \in KeyCodes, st \in ElementStates : KeyEvent(key, st)
    \/ OtherEvent
    \/ MainEventsCleared
    \/ RedrawEventsCleared
    \/ AcquireSignal
    \/ GpuDispatch
    \/ GpuCopy
    \/ GpuBlit
    \/ GpuPresent
    \/ FenceSignal
    \/ FenceWait
    \/ EndIteration

Spec == Init /\ [][Next]_vars

(***************************************************************************)
(* The parameter record on its own: the parse of the two size arguments    *)
(* and the record built from them, over the whole u32 range and for the    *)
(* camera states the first ticks produce.                                  *)
(***************************************************************************)
MarshalTexts ==
    { <<"1", "6">>,
      <<"5", "0", "0">>,
      <<"2", "1", "4", "7", "4", "8", "3", "6", "4", "7">>,
      <<"2", "1", "4", "7", "4", "8", "3", "6", "4", "8">>,
      <<"4", "2", "9", "4", "9", "6", "7", "2", "9", "5">>,
      <<"4", "2", "9", "4", "9", "6", "7", "2", "9", "6">> }

MarshalRuns ==
    [list : {FALSE}, device : {Absent}, width : {Given(t) : t \in MarshalTexts},
     height : {Given(t) : t \in MarshalTexts}, frame : {Absent}]

MarshalCameras ==
    { <<TickPosition(Origin, a, f, FALSE), TickAngle(a, l, r)>> :
         a \in {0 - 1, 0, 1}, f \in BOOLEAN, l \in BOOLEAN, r \in BOOLEAN }

MarshalInit ==
    /\ args \in MarshalRuns
    /\ numAdapters = 1
    /\ queueFams = <<QueueFamily(TRUE, TRUE)>>
    /\ \E c \in MarshalCameras : view_position = c[1] /\ view_angle = c[2]
    /\ pc = "marshal"
    /\ exit = "running"
    /\ stderr = <<>>
    /\ device_index = 0
    /\ physical = 0
    /\ width = 0
    /\ height = 0
    /\ queue_family = 0
    /\ device = TRUE
    /\ image = <<>>
    /\ moving_forward = FALSE
    /\ moving_backward = FALSE
    /\ turning_left = FALSE
    /\ turning_right = FALSE
    /\ buf = <<>>
    /\ png = <<>>
    /\ surface = FALSE
    /\ control_flow = "Poll"
    /\ evPhase = "none"
    /\ image_num = -1
    /\ acquired = {}
    /\ acqSignalled = FALSE
    /\ params = <<>>
    /\ gpuQueue = <<>>
    /\ fence = "none"
    /\ rtWriter = 0
    /\ lastGrid = <<>>
    /\ lastRead = <<>>
    /\ sinkLog = <<>>
    /\ count = NoCount

\* the two parses and cs::ty::Input { width: width as i32, .. }
MarshalParams ==
    /\ pc = "marshal"
    /\ LET w == ParseU32(args.width[1])
           h == ParseU32(args.height[1])
       IN  IF ~w.ok
           THEN /\ params' = params
                /\ ErrorReturn("Invalid argument provided. Width must be an integer")
           ELSE IF ~h.ok
           THEN /\ params' = params
                /\ ErrorReturn("Invalid argument provided. Height must be an integer")
           ELSE /\ params' = <<InputOf(w.val, h.val, view_position, view_angle)>>
                /\ Goto("done")
    /\ UNCHANGED <<argVars, setupVars, camVars, keyVars, fileVars, loopVars,
                   image_num, acquired, acqSignalled, gpuQueue, fence, rtWriter,
                   lastGrid, lastRead, sinkLog, count>>

MarshalNext == MarshalParams

MarshalSpec == MarshalInit /\ [][MarshalNext]_vars

(***************************************************************************)
(* Properties.                                                             *)
(***************************************************************************)
SinkWork == <<count.acquires, count.dispatches, count.transfers, count.presents>>

\* C1: in interactive mode, once a close request has been handled
\* (control_flow is Exit) no step acquires, dispatches, blits or presents
\* any more, whatever events the rest of the iteration still delivers.
C1_NoSinkAfterClose ==
    [][control_flow = "Exit" => SinkWork' = SinkWork]_vars

CeilDiv(n, d) == (n + d - 1) \div d

\* C2: every dispatch the queue executes, in either mode, has the grid
\* (ceil(width/8), ceil(height/8), 1).
C2_GridIsCeil ==
    lastGrid # <<>> =>
        lastGrid = <<CeilDiv(width, WorkgroupSize), CeilDiv(height, WorkgroupSize), 1>>

\* C3: in interactive mode the queue only ever holds work of the newest
\* frame, and whenever the closure is not running (so before the next frame's
\* parameters are built and its dispatch is submitted) every earlier
\* dispatch, blit and present request has retired and no fence is pending.
C3_OneFrameInFlight ==
    surface =>
        /\ \A k \in 1..Len(gpuQueue) : gpuQueue[k].frame = count.frames
        /\ pc = "loop" =>
              /\ gpuQueue = <<>>
              /\ fence # "pending"
              /\ count.dispatches = count.submits
              /\ count.transfers = count.submits
              /\ count.presents = count.submits

C3_Witness ==
    /\ surface
    /\ count.frames = 2
    /\ Len(gpuQueue) = 3
    /\ count.presents = 1

\* C4: in both modes a frame has one dispatch and one transfer, the
\* dispatch first: the transfer of frame n reads the render target as
\* written by the dispatch of frame n, and once a frame's fence has
\* signalled exactly one dispatch and one transfer have run per frame.
C4_DispatchBeforeTransfer ==
    /\ lastRead # <<>> => lastRead[1].writer = lastRead[1].frame
    /\ count.transfers <= count.dispatches
    /\ count.dispatches <= count.transfers + 1
    /\ count.dispatches <= count.submits
    /\ count.submits <= count.frames
    /\ fence = "signalled" =>
          count.dispatches = count.submits /\ count.transfers = count.submits

C4_Witness ==
    /\ surface
    /\ lastRead # <<>>
    /\ lastRead[1].frame = 2
    /\ fence = "signalled"

IsPrefix(a, b) == Len(a) <= Len(b) /\ a = SubSeq(b, 1, Len(a))

SinkOrder(i) ==
    <<Step("acquire", i), Step("submit", i), Step("signal", i),
      Step("dispatch", -1), Step("blit", i), Step("present", i),
      Step("fence", i), Step("return", i)>>

\* C5: the steps of one Presentation Sink invocation happen in the order
\* acquire i, submit, acquire signal, dispatch, blit into image i, present
\* request for i, fence signal, return; the closure is back in the loop only
\* after all of them.
C5_SinkOrder ==
    surface =>
        /\ \E i \in 0..(NumImages - 1) : IsPrefix(sinkLog, SinkOrder(i))
        /\ (pc = "loop" /\ sinkLog # <<>>) =>
              \E i \in 0..(NumImages - 1) : sinkLog = SinkOrder(i)

C5_Witness ==
    /\ pc = "loop"
    /\ count.frames = 2
    /\ sinkLog = SinkOrder(1)

\* C6: with --frame the program never builds a window or enters the loop,
\* never ticks the camera, uploads the initial camera, runs at most one
\* dispatch and one copy, and writes <path>.png only after the fence has
\* signalled with exactly one dispatch and one copy done, then returns.
C6_FileSinkOnce ==
    args.frame # Absent =>
        /\ ~surface
        /\ evPhase = "none"
        /\ pc \notin {"loop", "frame_wait"}
        /\ count.ticks = 0 /\ count.acquires = 0 /\ count.presents = 0
        /\ view_position = Origin /\ view_angle = 0
        /\ count.frames <= 1 /\ count.dispatches <= 1 /\ count.transfers <= 1
        /\ params # <<>> =>
              params[1].view_position = Origin /\ params[1].view_angle = 0
        /\ pc = "f_save" => fence = "signalled"
        /\ png # <<>> =>
              /\ fence = "signalled"
              /\ count.dispatches = 1 /\ count.transfers = 1
              /\ png[1].name = args.frame[1] \o DotPng
              /\ png[1].content = 1
              /\ pc = "done" /\ exit = "success"
        /\ (pc = "done" /\ exit = "success" /\ buf # <<>>) => png # <<>>

C6_Witness == png # <<>> /\ count.dispatches = 1 /\ count.transfers = 1

ArgErrorMessages ==
    { "Invalid argument provided. Device must be an integer",
      "Error: Could not find physical device with index",
      "Invalid argument provided. Width must be an integer",
      "Invalid argument provided. Height must be an integer" }

\* C7: a run that ended on an argument error (its message is on standard
\* error) did not end with the success status.
C7_ArgErrorExitsNonZero ==
    (pc = "done" /\ stderr # <<>> /\ stderr[1] \in ArgErrorMessages) =>
        exit # "success"

\* the device index asked for on the command line
RequestedIndex ==
    IF args.device = Absent THEN 0 ELSE ParseUInt(args.device[1]).val

DeviceArgOk == args.device = Absent \/ ParseUInt(args.device[1]).ok

\* C8: once the selection has run, an index below the number of adapters
\* (0 when --device is absent) has selected exactly that adapter, and any
\* other index has ended the run with the device-not-found message before a
\* logical device, queue, render target, window or frame exists.
C8_DeviceSelection ==
    /\ physical # -1 => physical = RequestedIndex /\ physical < numAdapters
    /\ (~args.list /\ DeviceArgOk /\ pc \notin {"start", "select"}) =>
          IF RequestedIndex < numAdapters
          THEN physical = RequestedIndex
          ELSE /\ pc = "done"
               /\ stderr = <<"Error: Could not find physical device with index">>
               /\ physical = -1
               /\ ~device /\ queue_family = 0 /\ image = <<>> /\ ~surface
               /\ buf = <<>> /\ params = <<>> /\ count = NoCount

C8_Witness ==
    /\ numAdapters = 0
    /\ args.device = Absent
    /\ pc = "done"
    /\ stderr = <<"Error: Could not find physical device with index">>

NoInput == ~moving_forward /\ ~moving_backward /\ ~turning_left /\ ~turning_right

\* C9: a camera tick taken with all four input flags false leaves
\* view_position and view_angle as they were.
C9_IdleTickKeepsCamera ==
    [][(count'.ticks # count.ticks /\ NoInput) =>
          (view_position' = view_position /\ view_angle' = view_angle)]_vars

\* an idle tick taken after a tick that moved and turned the camera
C9_Witness ==
    /\ pc = "frame_wait"
    /\ count.ticks = 2
    /\ NoInput
    /\ view_position # Origin /\ view_angle # 0

\* 0.01_f32
Step001 == [m |-> 10737418, e |-> -30]

OnlyForward == moving_forward /\ ~moving_backward /\ ~turning_left /\ ~turning_right
OnlyRight == turning_right /\ ~moving_forward /\ ~moving_backward /\ ~turning_left
OnlyLeft == turning_left /\ ~moving_forward /\ ~moving_backward /\ ~turning_right

\* C10: a tick with only moving_forward adds 0.01*sin to x, leaves y,
\* subtracts 0.01*cos from z (binary32 sums) and keeps the angle, giving
\* (0, 0, -0.01) from the origin at angle 0; a tick with only turning_right
\* adds 1 to the angle and one with only turning_left subtracts 1, the
\* position staying as it was.
C10_TickRule ==
    [][count'.ticks # count.ticks =>
          /\ OnlyForward =>
                /\ view_position'[1] = FAdd(view_position[1], StepSin(view_angle))
                /\ view_position'[2] = view_position[2]
                /\ view_position'[3] = FAdd(view_position[3], FNeg(StepCos(view_angle)))
                /\ view_angle' = view_angle
                /\ (view_position = Origin /\ view_angle = 0) =>
                      view_position' = <<FZero, FZero, FNeg(Step001)>>
          /\ OnlyRight =>
                view_angle' = view_angle + 1 /\ view_position' = view_position
          /\ OnlyLeft =>
                view_angle' = view_angle - 1 /\ view_position' = view_position]_vars

\* a forward-only tick from the origin, then a right-only tick
C10_Witness ==
    /\ pc = "frame_wait"
    /\ count.ticks = 2
    /\ OnlyRight
    /\ view_angle = 1
    /\ view_position = <<FZero, FZero, FNeg(Step001)>>

IsTick == count'.ticks # count.ticks

\* C11 as stated: a tick with moving_forward and moving_backward both set
\* leaves view_position unchanged, and a tick with turning_left and
\* turning_right both set leaves view_angle unchanged, whatever the other
\* two flags are.
C11_OpposingInputsCancel ==
    [][IsTick =>
          /\ (moving_forward /\ moving_backward) => view_position' = view_position
          /\ (turning_left /\ turning_right) => view_angle' = view_angle]_vars

\* |a| <= 2^k
FAtMost(a, k) ==
    \/ a.m = 0
    \/ a.e + 24 <= k
    \/ a.e + 23 = k /\ Abs(a.m) = 2^23

\* |a| < 2^k
FBelow(a, k) == a.m = 0 \/ a.e + 24 <= k

Max(a, b) == IF a >= b THEN a ELSE b

\* r is within one unit in the last place of the intermediate sum t, or of
\* r itself, of the value x it started from
WithinRounding(r, x, t) == FAtMost(FSub(r, x), Max(t.e, r.e))

\* C11, amended: the four inputs apply independently; left and right
\* together leave view_angle exactly unchanged; forward and backward
\* together leave y unchanged and bring x and z back to within one binary32
\* rounding step of the intermediate sum, exactly so from the origin.
C11_OpposingInputsNearlyCancel ==
    [][IsTick =>
          /\ (turning_left /\ turning_right) => view_angle' = view_angle
          /\ (moving_forward /\ moving_backward) =>
                /\ view_position'[2] = view_position[2]
                /\ WithinRounding(view_position'[1], view_position[1],
                                  FAdd(view_position[1], StepSin(view_angle)))
                /\ WithinRounding(view_position'[3], view_position[3],
                                  FSub(view_position[3], StepCos(view_angle)))
                /\ view_position = Origin => view_position' = Origin
          /\ view_position' = TickPosition(view_position, view_angle,
                                           moving_forward, moving_backward)
          /\ view_angle' = TickAngle(view_angle, turning_left, turning_right)]_vars

\* a tick with all four flags set has left the camera turned by the first
\* tick, and the position off the one the first tick produced
C11_Witness ==
    /\ pc = "frame_wait"
    /\ count.ticks = 2
    /\ moving_forward /\ moving_backward /\ turning_left /\ turning_right
    /\ view_angle = -1
    /\ view_position[1] = FZero
    /\ view_position[3] # FNeg(Step001)
    /\ FBelow(FSub(view_position[3], FNeg(Step001)), -27)

\* the flag that belongs to an arrow key
FlagOf(key) ==
    CASE key = "Up"    -> moving_forward
      [] key = "Down"  -> moving_backward
      [] key = "Left"  -> turning_left
      [] key = "Right" -> turning_right

ArrowKeys == {"Up", "Down", "Left", "Right"}

\* C12: a press of an arrow key sets that key's flag (Up moving_forward,
\* Down moving_backward, Left turning_left, Right turning_right), a release
\* clears it; the event changes no other flag, not the camera, and submits
\* no GPU work.  A flag changes through no step but an event for its own
\* key, so that, the flags starting false, each is true exactly when the
\* last event for its key was a press; and the camera changes in ticks only.
C12_KeyEventsSetFlags ==
    [][/\ \A key \in ArrowKeys, st \in ElementStates :
             KeyEvent(key, st) =>
                /\ FlagOf(key)' = (st = "Pressed")
                /\ \A other \in ArrowKeys \ {key} : FlagOf(other)' = FlagOf(other)
                /\ UNCHANGED <<camVars, gpuVars, pc, exit, control_flow>>
       /\ \A key \in ArrowKeys :
             FlagOf(key)' # FlagOf(key) =>
                KeyEvent(key, IF FlagOf(key)' THEN "Pressed" ELSE "Released")
       /\ camVars' # camVars => IsTick]_vars

\* Up was pressed, moved the camera in the first tick and has been
\* released in the next iteration, while Left is held
C12_Witness ==
    /\ pc = "loop"
    /\ evPhase = "events"
    /\ count.ticks = 1
    /\ view_position = MoveForward(Origin, 0)
    /\ ~moving_forward /\ ~moving_backward /\ turning_left /\ ~turning_right

\* an event that is neither a close request nor a press or release of an
\* arrow key nor MainEventsCleared: a key event for another key or for no
\* key code, RedrawEventsCleared, or any other event
IgnoredEvent ==
    \/ RedrawEventsCleared
    \/ OtherEvent
    \/ \E key \in KeyCodes \ ArrowKeys, st \in ElementStates : KeyEvent(key, st)

\* C13: an event other than the close request and the press or release of
\* the four arrow keys leaves the four flags, the camera and the termination
\* state (control_flow, the process) unchanged and renders no frame: nothing
\* is acquired, uploaded or submitted.
C13_OtherEventsIgnored ==
    [][IgnoredEvent =>
          UNCHANGED <<keyVars, camVars, control_flow, pc, exit, gpuVars>>]_vars

\* RedrawEventsCleared has been delivered after the first frame, with Up
\* held and the camera moved by that frame's tick
C13_Witness ==
    /\ pc = "loop"
    /\ evPhase = "redrawn"
    /\ control_flow = "Poll"
    /\ count.presents = 1
    /\ moving_forward /\ ~moving_backward /\ ~turning_left /\ ~turning_right
    /\ view_position = MoveForward(Origin, 0)

\* C14: in interactive mode every camera tick comes with one invocation of
\* the presentation sink (count.frames counts the calls of
\* acquire_next_image) and the other way round, so the two counts agree in
\* every state; whenever the closure has returned, every tick's frame has
\* been presented; and the record uploaded in tick n carries the position
\* and yaw the camera has after tick n, the upload leaving the camera as
\* the tick left it.
C14_OneTickPerFrame ==
    [][surface' =>
          /\ count'.ticks = count'.frames
          /\ IsTick <=> count'.frames # count.frames
          /\ IsTick => count'.ticks = count.ticks + 1
          /\ pc' = "loop" => count'.presents = count'.ticks
          /\ params' # params => IsTick
          /\ (IsTick /\ count'.acquires # count.acquires) =>
                /\ params'[1].view_position = view_position'
                /\ params'[1].view_angle = view_angle'
                /\ view_position' = TickPosition(view_position, view_angle,
                                                 moving_forward, moving_backward)
                /\ view_angle' = TickAngle(view_angle, turning_left, turning_right)]_vars

\* two frames presented after two ticks that turned right and moved
\* forward, the record of the second frame carrying yaw 2
C14_Witness ==
    /\ pc = "loop"
    /\ count.ticks = 2
    /\ count.presents = 2
    /\ view_angle = 2
    /\ view_position[3] # FZero
    /\ params[1].view_angle = 2
    /\ params[1].view_position = view_position

\* C15: for every viewport with width > 0 and height > 0 that reaches the
\* export branch, the buffer is allocated, with exactly width * height * 4
\* bytes (the mathematical product), all zero: the allocation neither
\* aborts on the multiplication nor comes out with a wrapped length.
C15_BufferIsProduct ==
    (width > 0 /\ height > 0) =>
       /\ buf # <<>> =>
             /\ buf[1].len % BytesPerTexel = 0
             /\ buf[1].len \div BytesPerTexel = width * height
             /\ buf[1].content = 0
       /\ ~(/\ exit = "panic"
            /\ stderr # <<>>
            /\ stderr[Len(stderr)] = "attempt to multiply with overflow")

SuitableFamily(q) == q.graphics /\ (args.frame = Absent => q.present)

\* C17: initialisation gets past the queue selection only with a queue
\* family that supports graphics and, in an interactive run, presentation;
\* when the adapter has no such family the selection fails and no family
\* is ever chosen.
C17_QueueFamilySuitable ==
    queue_family # 0 => SuitableFamily(queueFams[queue_family])

\* C18: whenever the run stands at the creation of the render target, or
\* has created it, allocated the readback buffer or dispatched, the viewport
\* has width > 0 and height > 0, whatever sizes the command line accepted.
C18_ViewportPositive ==
    (pc = "image" \/ image # <<>> \/ buf # <<>> \/ lastGrid # <<>>) =>
       (width > 0 /\ height > 0)

LastMessage == IF stderr = <<>> THEN "" ELSE stderr[Len(stderr)]

\* the last thing an interactive run reported is a failed acquisition
AcquireFailed == surface /\ LastMessage = "unwrap on Err: AcquireError"

\* the last thing an interactive run reported is a failed submission or a
\* failed fence wait
SubmitOrWaitFailed == surface /\ LastMessage = "unwrap on Err: FlushError"

\* C19: a failed acquisition, submission or fence wait of an interactive
\* run ends the process abnormally at once.  After a failed acquisition
\* nothing has been submitted for that frame: the queue is empty and every
\* counter of GPU work stands where the previous frame left it.  After any
\* of the three failures no later step ticks, acquires or submits, so no
\* further frame is produced, and the process stays ended.
C19_FrameFailureFatal ==
    [][/\ (AcquireFailed \/ SubmitOrWaitFailed)' => (exit' = "panic" /\ pc' = "done")
       /\ AcquireFailed' =>
             /\ gpuQueue' = <<>>
             /\ count'.submits = count'.frames - 1
             /\ count'.acquires = count'.submits
             /\ count'.dispatches = count'.submits
             /\ count'.transfers = count'.submits
             /\ count'.presents = count'.submits
       /\ (AcquireFailed \/ SubmitOrWaitFailed) =>
             /\ count'.frames = count.frames
             /\ count'.ticks = count.ticks
             /\ count'.acquires = count.acquires
             /\ count'.submits = count.submits
             /\ UNCHANGED <<pc, exit, camVars, params>>
       /\ AcquireFailed => UNCHANGED <<count, gpuQueue>>]_vars

\* the second frame's acquisition failed after the first frame had been
\* presented
C19_Witness ==
    /\ AcquireFailed
    /\ exit = "panic"
    /\ count.frames = 2
    /\ count.presents = 1
    /\ count.submits = 1

\* exactly one of the two flags of a pair is set
OneOf(a, b) == a # b

\* C20: a tick that both moves (one move flag) and turns (one turn flag)
\* displaces the position along the yaw held before the tick, not along
\* the yaw the same tick turns to; the turned yaw is what the next tick
\* moves along.
C20_MoveUsesYawBeforeTurn ==
    [][(/\ IsTick
        /\ OneOf(moving_forward, moving_backward)
        /\ OneOf(turning_left, turning_right)) =>
          /\ view_angle' = IF turning_left THEN view_angle - 1 ELSE view_angle + 1
          /\ view_position' = IF moving_forward
                              THEN MoveForward(view_position, view_angle)
                              ELSE MoveBackward(view_position, view_angle)
          /\ view_position' # IF moving_forward
                              THEN MoveForward(view_position, view_angle')
                              ELSE MoveBackward(view_position, view_angle')]_vars

\* the first tick moved forward along yaw 0 while turning right, the second
\* moved forward along the yaw 1 the first one had turned to
C20_Witness ==
    /\ count.ticks = 2
    /\ moving_forward /\ ~moving_backward /\ ~turning_left /\ turning_right
    /\ view_angle = 2
    /\ view_position = MoveForward(MoveForward(Origin, 0), 1)
    /\ view_position # MoveForward(MoveForward(Origin, 1), 2)

=============================================================================
